---- MODULE Spec2Model ----
(***************************************************************************)
(* Model of the foot-traffic checker: the prediction service (src/main.py) *)
(* and the data generator service (src/data/main.py).                      *)
(*                                                                         *)
(* Numbers.  The code computes in IEEE doubles; the model computes in      *)
(* exact fixed point.  A mean footfall is held in tenths (mean10), the     *)
(* hour and transport multipliers in tenths (1.3 is 13), so that           *)
(*   int(base_footfall * multiplier)  is  (mean10 * hm10) \div 100  and    *)
(*   footfall * transport_factor > 5000  is  footfall * tf10 > 50000.      *)
(* The means the model draws (Means10) are values on which the double      *)
(* product and the exact product truncate to the same integer.             *)
(***************************************************************************)
EXTENDS Integers, Sequences, FiniteSets, TLC

VARIABLES
    clock,          \* wall-clock hour, what datetime.now().hour returns
    ticks,          \* how often the clock has advanced during the request
    svc,            \* the data generator's last answer: [up, mean10]
    svcChanges,     \* how often the data generator changed its answer
    req,            \* the request: [kind, name]
    pc,             \* position of the request handler
    transport_type, \* get_location_prediction: the resolved transport type
    data,           \* get_location_prediction: what get_location_data returned
    current_hour,   \* the hour the handler read from the clock
    multiplier,     \* HOUR_MULTIPLIERS entry the handler computes with (tenths)
    current_footfall, \* get_location_prediction: footfall computed
    congestion,     \* get_location_prediction: level computed
    todo,           \* area / transport loop: members still to visit
    components,     \* area: components; transport: results
    congestion_scores, \* area: the scores appended so far
    fetchLog,       \* every get_location_data call of the request, in order
    resp,           \* the response or the HTTP error raised, NoResp before
    \* the data generator service (src/data/main.py), generate_transport_data
    gReq,           \* its arguments: [location_name, transport_type, days]
    gNow,           \* datetime.now() of line 124, as a day number
    gDay,           \* the loop variable `day`
    gData,          \* the list `data`: entries [ds, y]
    gPc,            \* "idle", "loop", "done" or "responded"
    gStats,         \* generate_data: the dict `stats`, NoStats before
    \* GET /api/areas/all (src/main.py), get_all_areas_congestion
    allPc,          \* "idle", "loop", "call" (in get_area_prediction), "done"
    allTodo,        \* the area names the loop has still to visit
    allResults,     \* the list `results`
    allLog,         \* every get_area_prediction call made: [area, status]
    allResp,        \* the response, NoResp before
    \* the data generator service's requests, each a process of its own
    rReq,           \* the body each request arrived with
    rPc,            \* where each request is
    rCalls,         \* the generate_transport_data calls each request made
    rResp,          \* what each request was answered, NoResp before
    files           \* the service's working directory: file name -> content

\* the prediction service's variables
predVars == <<clock, ticks, svc, svcChanges, req, pc, transport_type, data,
              current_hour, multiplier, current_footfall, congestion, todo,
              components, congestion_scores, fetchLog, resp>>

\* the data generator's variables
genVars == <<gReq, gNow, gDay, gData, gPc, gStats>>

\* the variables of get_all_areas_congestion
allVars == <<allPc, allTodo, allResults, allLog, allResp>>

\* the variables of the data generator's requests and their files
fileVars == <<rReq, rPc, rCalls, rResp, files>>

\* what a step of one prediction request leaves alone
notPredVars == <<genVars, allVars, fileVars>>

\* what a step of generate_transport_data leaves alone
notGenVars == <<predVars, allVars, fileVars>>

\* what a step of a data generator request leaves alone
notFileVars == <<predVars, genVars, allVars>>

vars == <<predVars, genVars, allVars, fileVars>>

(***************************************************************************)
(* Bounds of the model.                                                    *)
(***************************************************************************)
\* the wall clock advances at most this often while one request is handled
MaxTicks == 1
\* the data generator changes its answer at most this often during a request
MaxSvcChanges == 1
\* the longest series generate_transport_data is asked for (the code: 365)
MaxDays == 3

(***************************************************************************)
(* Catalog (src/main.py:44-126).                                           *)
(***************************************************************************)
METRO_STATIONS ==
    <<"Ghatkopar", "Andheri", "Versova", "Aarey", "Dahisar East",
      "DN Nagar", "Azad Nagar", "Western Express Highway", "Marol Naka",
      "Airport Road">>

RAILWAY_STATIONS ==
    <<"Andheri West", "Bandra", "Dadar", "Borivali", "Malad",
      "Goregaon", "Jogeshwari", "Vile Parle", "Santa Cruz", "Khar Road">>

BUS_STATIONS ==
    <<"Andheri Bus Depot", "Kurla Bus Station", "Borivali Bus Depot",
      "Ghatkopar Bus Stand", "Bandra Bus Stand", "Dadar Bus Terminal",
      "Malad Bus Depot", "Goregaon Bus Depot", "Versova Bus Stand",
      "DN Nagar Bus Stop">>

TRAFFIC_SIGNALS ==
    <<"Amboli Naka", "Andheri Station Signal",
      "Western Express Highway Junction", "Versova Junction",
      "DN Nagar Signal", "Azad Nagar Junction", "Ghatkopar Junction",
      "Airport Road Signal", "Marol Naka Signal", "Aarey Signal">>

\* the area names, in dict (insertion) order
AreaNames ==
    <<"Andheri", "Versova", "Ghatkopar", "DN Nagar", "Bandra", "Dadar",
      "Borivali">>

AREA_MAPPING ==
    [a \in {AreaNames[i] : i \in 1..Len(AreaNames)} |->
       CASE a = "Andheri" ->
              [metro |-> <<"Andheri">>, railway |-> <<"Andheri West">>,
               bus |-> <<"Andheri Bus Depot">>,
               signals |-> <<"Andheri Station Signal", "Amboli Naka">>]
         [] a = "Versova" ->
              [metro |-> <<"Versova">>, railway |-> <<>>,
               bus |-> <<"Versova Bus Stand">>,
               signals |-> <<"Versova Junction">>]
         [] a = "Ghatkopar" ->
              [metro |-> <<"Ghatkopar">>, railway |-> <<>>,
               bus |-> <<"Ghatkopar Bus Stand">>,
               signals |-> <<"Ghatkopar Junction">>]
         [] a = "DN Nagar" ->
              [metro |-> <<"DN Nagar">>, railway |-> <<>>,
               bus |-> <<"DN Nagar Bus Stop">>,
               signals |-> <<"DN Nagar Signal">>]
         [] a = "Bandra" ->
              [metro |-> <<>>, railway |-> <<"Bandra">>,
               bus |-> <<"Bandra Bus Stand">>, signals |-> <<>>]
         [] a = "Dadar" ->
              [metro |-> <<>>, railway |-> <<"Dadar">>,
               bus |-> <<"Dadar Bus Terminal">>, signals |-> <<>>]
         [] OTHER ->
              [metro |-> <<>>, railway |-> <<"Borivali">>,
               bus |-> <<"Borivali Bus Depot">>, signals |-> <<>>]]

\* HOUR_MULTIPLIERS, in tenths, hour h at index h + 1
HOUR_MULTIPLIERS ==
    << 3,  2,  2,  2,  3,  4,
       5,  8, 13, 15, 12, 10,
       9,  8,  7,  8,  9, 12,
      15, 14, 12,  9,  7,  5>>

\* TRANSPORT_MULTIPLIERS, in tenths
TRANSPORT_MULTIPLIERS ==
    [t \in {"metro", "railway", "bus", "signal"} |->
       CASE t = "metro" -> 10
         [] t = "railway" -> 13
         [] t = "bus" -> 8
         [] OTHER -> 12]

\* the members of the TransportType enum of the data generator
TransportType == {"metro", "railway", "bus", "signal"}

Range(s) == {s[i] : i \in 1..Len(s)}

\* Python's None where a string is expected, and where a dict is expected
None == "None"
NoneData == [isNone |-> TRUE]
\* no response yet
NoResp == [status |-> 0]

(***************************************************************************)
(* Helper functions of the prediction service (src/main.py:137-201).       *)
(***************************************************************************)
\* get_transport_type with a default instead of None
get_transport_type_Default(location_name) ==
    IF location_name \in Range(RAILWAY_STATIONS) THEN "railway"
    ELSE IF location_name \in Range(BUS_STATIONS) THEN "bus"
    ELSE IF location_name \in Range(TRAFFIC_SIGNALS) THEN "signal"
    ELSE "metro"

\* get_transport_type: membership in the four lists, first match; None else
get_transport_type(location_name) ==
    IF location_name \in Range(METRO_STATIONS) THEN "metro"
    ELSE IF location_name \in Range(RAILWAY_STATIONS) THEN "railway"
    ELSE IF location_name \in Range(BUS_STATIONS) THEN "bus"
    ELSE IF location_name \in Range(TRAFFIC_SIGNALS) THEN "signal"
    ELSE None

\* HOUR_MULTIPLIERS.get(hour, 0.8), in tenths
HourMultiplier(hour) ==
    IF hour \in 0..23 THEN HOUR_MULTIPLIERS[hour + 1] ELSE 8

\* TRANSPORT_MULTIPLIERS.get(transport_type, 1.0), in tenths
TransportFactor(ttype) ==
    IF ttype \in DOMAIN TRANSPORT_MULTIPLIERS
    THEN TRANSPORT_MULTIPLIERS[ttype] ELSE 10

\* calculate_congestion_level with the Medium test ahead of the High test
calculate_congestion_level_MediumFirst(footfall, ttype, mult) ==
    LET adjusted10 == footfall * TransportFactor(ttype)
    IN  IF mult > 9 /\ adjusted10 > 30000 THEN "Medium"
        ELSE IF mult > 12 /\ adjusted10 > 50000 THEN "High"
        ELSE "Low"

\* calculate_congestion_level with the High test's comparison of the
\* multiplier turned round
calculate_congestion_level_Flipped(footfall, ttype, mult) ==
    LET adjusted10 == footfall * TransportFactor(ttype)
    IN  IF mult < 12 /\ adjusted10 > 50000 THEN "High"
        ELSE IF mult > 9 /\ adjusted10 > 30000 THEN "Medium"
        ELSE "Low"

\* calculate_congestion_level(footfall, transport_type, multiplier);
\* mult is in tenths, adjusted_footfall is held times ten
calculate_congestion_level(footfall, ttype, mult) ==
    LET adjusted10 == footfall * TransportFactor(ttype)
    IN  IF mult > 12 /\ adjusted10 > 50000 THEN "High"
        ELSE IF mult > 9 /\ adjusted10 > 30000 THEN "Medium"
        ELSE "Low"

\* int(x) of a Python float x = n / d with d > 0: truncation toward zero
IntTrunc(n, d) ==
    IF n >= 0 THEN n \div d ELSE -((-n) \div d)

\* calculate_current_footfall(base_footfall), the clock read being `now`:
\* <<int(base_footfall * multiplier), multiplier>>
calculate_current_footfall(base10, now) ==
    LET m == HourMultiplier(now)
    IN  <<IntTrunc(base10 * m, 100), m>>

\* round(x) of a Python float x = n / d, n >= 0, d > 0: to the nearest
\* integer, a half to the even neighbour
RoundNearest(n, d) ==
    LET q == n \div d
        r == n % d
    IN  IF 2 * r > d THEN q + 1
        ELSE IF 2 * r < d THEN q
        ELSE IF q % 2 = 0 THEN q ELSE q + 1

\* line 293 with round() in the place of int()
AreaFootfall_Rounded(base10, mult) ==
    RoundNearest(base10 * mult, 100)

\* get_area_prediction line 293: int(base_footfall * multiplier)
AreaFootfall(base10, mult) ==
    IntTrunc(base10 * mult, 100)

\* get_transport_type_data line 378: int(base_footfall * multiplier)
TransFootfall(base10, mult) ==
    IntTrunc(base10 * mult, 100)

\* POST /api/generate/data as call_data_generator sees it: the request body
\* is validated against DataGenerationRequest (transport_type must be a
\* TransportType member, else 422); a service that is down raises
\* RequestError.  The result is the HTTP status and, on 200, the mean.
call_data_generator(ttype, gen) ==
    IF ~gen.up THEN [status |-> 503]
    ELSE IF ttype \notin TransportType THEN [status |-> 422]
    ELSE [status |-> 200, success |-> TRUE, mean10 |-> gen.mean10]

\* get_location_data: the JSON on success, None on any exception
get_location_data(location, ttype, gen) ==
    LET r == call_data_generator(ttype, gen)
    IN  IF r.status = 200 THEN [success |-> r.success, mean10 |-> r.mean10]
        ELSE NoneData

\* `data and data.get("success")`
DataOk(d) ==
    "success" \in DOMAIN d /\ d.success

\* the entry fetchLog keeps of one get_location_data call: what was asked,
\* whether the call returned data, and the mean it returned
LogEntry(location, ttype, d) ==
    [location |-> location, type |-> ttype, ok |-> d # NoneData,
     mean10 |-> IF d # NoneData THEN d.mean10 ELSE 0]

\* area_data.items() flattened: every (key, location) in iteration order
AreaMembers(area_name) ==
    LET m == AREA_MAPPING[area_name]
        Tag(k) == [i \in 1..Len(m[k]) |-> [location |-> m[k][i], type |-> k]]
    IN  Tag("metro") \o Tag("railway") \o Tag("bus") \o Tag("signals")

\* type_map.get(transport_type) of get_transport_type_data
type_map(ttype) ==
    CASE ttype = "metro" -> METRO_STATIONS
      [] ttype = "railway" -> RAILWAY_STATIONS
      [] ttype = "bus" -> BUS_STATIONS
      [] ttype = "signal" -> TRAFFIC_SIGNALS
      [] OTHER -> <<>>

\* {'High': 3, 'Medium': 2, 'Low': 1}.get(congestion, 1)
LevelScore(level) ==
    CASE level = "High" -> 3
      [] level = "Medium" -> 2
      [] OTHER -> 1

RECURSIVE SumSeq(_)
SumSeq(s) ==
    IF s = <<>> THEN 0 ELSE Head(s) + SumSeq(Tail(s))

\* the thresholds of lines 312-314 with > in the place of >=
OverallCongestion_Strict(total, n) ==
    IF 2 * total > 5 * n THEN "High"
    ELSE IF 2 * total > 3 * n THEN "Medium"
    ELSE "Low"

\* overall_congestion from avg_score = total / n (lines 310-317), compared
\* unrounded: avg >= 2.5 is 2 * total >= 5 * n
OverallCongestion(total, n) ==
    IF 2 * total >= 5 * n THEN "High"
    ELSE IF 2 * total >= 3 * n THEN "Medium"
    ELSE "Low"

\* round(avg_score, 2) held in hundredths; no avg_score * 100 of the model
\* lies on a half, so the rounding mode does not matter
RoundedScore100(total, n) ==
    (200 * total + n) \div (2 * n)

(***************************************************************************)
(* Inputs.                                                                 *)
(***************************************************************************)
\* the series means (in tenths) the data generator may report
Means10 == {20000, 60025}

SvcStates ==
    {[up |-> FALSE, mean10 |-> 0]} \cup {[up |-> TRUE, mean10 |-> m] : m \in Means10}

\* names asked of /api/location: one of each list, and names of no list
LocationNames ==
    {"Andheri", "Bandra", "Dadar Bus Terminal", "Amboli Naka",
     "andheri", "Atlantis"}

\* names asked of /api/area: every area, and names of no area
AreaRequestNames ==
    Range(AreaNames) \cup {"andheri", "Kurla"}

\* types asked of /api/transport: every type, and two that are none
TransportRequestNames ==
    TransportType \cup {"signals", "tram"}

Requests ==
    {[kind |-> "location", name |-> n] : n \in LocationNames}
    \cup {[kind |-> "area", name |-> n] : n \in AreaRequestNames}
    \cup {[kind |-> "transport", name |-> n] : n \in TransportRequestNames}

\* the statistics not yet computed
NoStats ==
    [mean |-> [num |-> 0, den |-> 0], median2 |-> 0, min |-> 0, max |-> 0,
     std |-> [nan |-> FALSE, num |-> <<0, 0>>, den |-> 0]]

\* no generate_transport_data call in progress
GenIdle ==
    /\ gReq = [location_name |-> "", transport_type |-> "", days |-> 0]
    /\ gNow = 0
    /\ gDay = 0
    /\ gData = <<>>
    /\ gPc = "idle"
    /\ gStats = NoStats

\* no get_all_areas_congestion request
AllIdle ==
    /\ allPc = "idle"
    /\ allTodo = <<>>
    /\ allResults = <<>>
    /\ allLog = <<>>
    /\ allResp = NoResp

\* the requests the data generator service handles at a time
Procs == {1, 2}

\* no request
NoRequest == [endpoint |-> "none"]

\* no request at the data generator service, its directory empty
FilesIdle ==
    /\ rReq = [p \in Procs |-> NoRequest]
    /\ rPc = [p \in Procs |-> "absent"]
    /\ rCalls = [p \in Procs |-> <<>>]
    /\ rResp = [p \in Procs |-> NoResp]
    /\ files = <<>>

\* the data generator has not been asked yet
NoAnswer == [up |-> FALSE, mean10 |-> -1]

HTTPException(status_code, detail) ==
    [status |-> status_code, detail |-> detail]

Init ==
    /\ clock \in 0..23
    /\ ticks = 0
    /\ svc = NoAnswer
    /\ svcChanges = 0
    /\ req \in Requests
    /\ pc = "start"
    /\ transport_type = None
    /\ data = NoneData
    /\ current_hour = -1
    /\ multiplier = 0
    /\ current_footfall = 0
    /\ congestion = None
    /\ todo = <<>>
    /\ components = <<>>
    /\ congestion_scores = <<>>
    /\ fetchLog = <<>>
    /\ resp = NoResp
    /\ GenIdle
    /\ AllIdle
    /\ FilesIdle

(***************************************************************************)
(* Environment: the wall clock and the data generator.                     *)
(***************************************************************************)
Tick ==
    /\ UNCHANGED notPredVars
    /\ pc \notin {"idle", "done"}
    /\ ticks < MaxTicks
    /\ clock' = (clock + 1) % 24
    /\ ticks' = ticks + 1
    /\ UNCHANGED <<svc, svcChanges, req, pc, transport_type, data,
                   current_hour, multiplier, current_footfall, congestion,
                   todo, components, congestion_scores, fetchLog, resp>>

\* The data generator's answer to the next call: any answer to the first
\* call, then the answer it gave last, or another one while it has changed
\* fewer than MaxSvcChanges times.
Answers ==
    {g \in SvcStates :
        svc = NoAnswer \/ g = svc \/ svcChanges < MaxSvcChanges}

\* the data generator having answered as `gen`
Answered(gen) ==
    /\ svc' = gen
    /\ svcChanges' = IF svc = NoAnswer \/ gen = svc
                      THEN svcChanges ELSE svcChanges + 1

(***************************************************************************)
(* GET /api/location/{location_name}: get_location_prediction.             *)
(***************************************************************************)
\* lines 236-239: resolve the transport type, 404 when there is none
LocResolve ==
    /\ UNCHANGED notPredVars
    /\ req.kind = "location" /\ pc = "start"
    /\ transport_type' = get_transport_type(req.name)
    /\ IF transport_type' = None
       THEN /\ resp' = HTTPException(404, "Location not found")
            /\ pc' = "done"
       ELSE /\ resp' = resp
            /\ pc' = "fetch"
    /\ UNCHANGED <<clock, ticks, svc, svcChanges, req, data, current_hour,
                   multiplier, current_footfall, congestion, todo,
                   components, congestion_scores, fetchLog>>

\* lines 243-246: await get_location_data, 404 when there is no data
LocFetch ==
    /\ UNCHANGED notPredVars
    /\ req.kind = "location" /\ pc = "fetch"
    /\ \E gen \in Answers :
          /\ Answered(gen)
          /\ data' = get_location_data(req.name, transport_type, gen)
    /\ fetchLog' = Append(fetchLog, LogEntry(req.name, transport_type, data'))
    /\ IF ~DataOk(data')
       THEN /\ resp' = HTTPException(404, "Data not available")
            /\ pc' = "done"
       ELSE /\ resp' = resp
            /\ pc' = "compute"
    /\ UNCHANGED <<clock, ticks, req, transport_type,
                   current_hour, multiplier, current_footfall, congestion,
                   todo, components, congestion_scores>>

\* lines 249-253: the footfall of the hour the clock shows (current_hour of
\* calculate_current_footfall, line 199), and its level
LocCompute ==
    /\ UNCHANGED notPredVars
    /\ req.kind = "location" /\ pc = "compute"
    /\ LET r == calculate_current_footfall(data.mean10, clock)
       IN  /\ current_footfall' = r[1]
           /\ multiplier' = r[2]
           /\ congestion' = calculate_congestion_level(r[1], transport_type, r[2])
    /\ current_hour' = clock
    /\ pc' = "respond"
    /\ UNCHANGED <<clock, ticks, svc, svcChanges, req, transport_type, data,
                   todo, components, congestion_scores, fetchLog, resp>>

\* lines 255-264: the response; current_hour is a second read of the clock
LocRespond ==
    /\ UNCHANGED notPredVars
    /\ req.kind = "location" /\ pc = "respond"
    /\ resp' = [status |-> 200,
                location |-> req.name,
                transport_type |-> transport_type,
                current_footfall |-> current_footfall,
                base_daily_footfall |-> IntTrunc(data.mean10, 10),
                congestion_level |-> congestion,
                current_hour |-> clock]
    /\ pc' = "done"
    /\ UNCHANGED <<clock, ticks, svc, svcChanges, req, transport_type, data,
                   current_hour, multiplier, current_footfall, congestion, todo,
                   components, congestion_scores, fetchLog>>

(***************************************************************************)
(* GET /api/area/{area_name}: get_area_prediction.                         *)
(***************************************************************************)
\* components.insert(0, {...}) in the place of append
AddComponent_Front(list, entry) ==
    <<entry>> \o list

\* components.append({...}) of lines 299-304
AddComponent(list, entry) ==
    Append(list, entry)

\* lines 275-284: 404 for an unknown area, else one read of the clock
AreaStart ==
    /\ UNCHANGED notPredVars
    /\ req.kind = "area" /\ pc = "start"
    /\ IF req.name \notin DOMAIN AREA_MAPPING
       THEN /\ resp' = HTTPException(404, "Area not found")
            /\ pc' = "done"
            /\ UNCHANGED <<current_hour, multiplier, todo>>
       ELSE /\ current_hour' = clock
            /\ multiplier' = HourMultiplier(clock)
            /\ todo' = AreaMembers(req.name)
            /\ pc' = "loop"
            /\ resp' = resp
    /\ UNCHANGED <<clock, ticks, svc, svcChanges, req, transport_type, data,
                   current_footfall, congestion, components,
                   congestion_scores, fetchLog>>

\* lines 287-304: one member of the area; a member without data is skipped
AreaMember ==
    /\ UNCHANGED notPredVars
    /\ req.kind = "area" /\ pc = "loop" /\ todo # <<>>
    /\ \E gen \in Answers :
       LET m == Head(todo)
           d == get_location_data(m.location, m.type, gen)
       IN  /\ Answered(gen)
           /\ fetchLog' = Append(fetchLog, LogEntry(m.location, m.type, d))
           /\ IF DataOk(d)
              THEN LET cf == AreaFootfall(d.mean10, multiplier)
                       c == calculate_congestion_level(cf, m.type, multiplier)
                   IN  /\ congestion_scores' =
                              Append(congestion_scores, LevelScore(c))
                       /\ components' =
                              AddComponent(components,
                                  [location |-> m.location, type |-> m.type,
                                   footfall |-> cf, congestion |-> c])
              ELSE UNCHANGED <<congestion_scores, components>>
    /\ todo' = Tail(todo)
    /\ UNCHANGED <<clock, ticks, req, pc, transport_type,
                   data, current_hour, multiplier, current_footfall,
                   congestion, resp>>

\* lines 306-326 without the test of line 306: sum([]) / len([]) raises
\* ZeroDivisionError, which `except Exception` turns into a 500
AreaResult_NoEmptyCheck(area_name, scores, comps, hour) ==
    IF scores = <<>>
    THEN HTTPException(500, "division by zero")
    ELSE LET total == SumSeq(scores)
             n == Len(scores)
         IN  [status |-> 200,
              area |-> area_name,
              overall_congestion |-> OverallCongestion(total, n),
              congestion_score100 |-> RoundedScore100(total, n),
              current_hour |-> hour,
              components |-> comps]

\* lines 306-326: the HTTPException(404) raised when nothing was collected
\* (re-raised by `except HTTPException: raise`), else the area's response
AreaResult(area_name, scores, comps, hour) ==
    IF scores = <<>>
    THEN HTTPException(404, "No data available for this area")
    ELSE LET total == SumSeq(scores)
             n == Len(scores)
         IN  [status |-> 200,
              area |-> area_name,
              overall_congestion |-> OverallCongestion(total, n),
              congestion_score100 |-> RoundedScore100(total, n),
              current_hour |-> hour,
              components |-> comps]

\* lines 306-326: the loop is over, the request ends with AreaResult
AreaFinish ==
    /\ UNCHANGED notPredVars
    /\ req.kind = "area" /\ pc = "loop" /\ todo = <<>>
    /\ resp' = AreaResult(req.name, congestion_scores, components, current_hour)
    /\ pc' = "done"
    /\ UNCHANGED <<clock, ticks, svc, svcChanges, req, transport_type, data,
                   current_hour, multiplier, current_footfall, congestion,
                   todo, components, congestion_scores, fetchLog>>

(***************************************************************************)
(* GET /api/transport/{transport_type}: get_transport_type_data.           *)
(***************************************************************************)
\* results.append({...}) of lines 381-385
AddResult(list, entry) ==
    Append(list, entry)

\* the locations of the loop of line 373, each with the type it is asked as
TransMembers(ttype) ==
    LET l == type_map(ttype)
    IN  [i \in 1..Len(l) |-> [location |-> l[i], type |-> ttype]]

\* lines 356-371: 404 for an unknown type, else one read of the clock
TransStart ==
    /\ UNCHANGED notPredVars
    /\ req.kind = "transport" /\ pc = "start"
    /\ IF type_map(req.name) = <<>>
       THEN /\ resp' = HTTPException(404, "Invalid transport type")
            /\ pc' = "done"
            /\ UNCHANGED <<current_hour, multiplier, todo>>
       ELSE /\ current_hour' = clock
            /\ multiplier' = HourMultiplier(clock)
            /\ todo' = TransMembers(req.name)
            /\ pc' = "loop"
            /\ resp' = resp
    /\ UNCHANGED <<clock, ticks, svc, svcChanges, req, transport_type, data,
                   current_footfall, congestion, components,
                   congestion_scores, fetchLog>>

\* lines 373-385: one location of the type; one without data is skipped
TransMember ==
    /\ UNCHANGED notPredVars
    /\ req.kind = "transport" /\ pc = "loop" /\ todo # <<>>
    /\ \E gen \in Answers :
       LET m == Head(todo)
           d == get_location_data(m.location, m.type, gen)
       IN  /\ Answered(gen)
           /\ fetchLog' = Append(fetchLog, LogEntry(m.location, m.type, d))
           /\ IF DataOk(d)
              THEN LET cf == TransFootfall(d.mean10, multiplier)
                       c == calculate_congestion_level(cf, m.type, multiplier)
                   IN  components' =
                           AddResult(components,
                               [location |-> m.location,
                                footfall |-> cf, congestion |-> c])
              ELSE UNCHANGED components
    /\ todo' = Tail(todo)
    /\ UNCHANGED <<clock, ticks, req, pc, transport_type,
                   data, current_hour, multiplier, current_footfall,
                   congestion, congestion_scores, resp>>

\* lines 387-393: the collection, whatever it holds
TransFinish ==
    /\ UNCHANGED notPredVars
    /\ req.kind = "transport" /\ pc = "loop" /\ todo = <<>>
    /\ resp' = [status |-> 200,
                transport_type |-> req.name,
                locations |-> components,
                total_locations |-> Len(components),
                current_hour |-> current_hour]
    /\ pc' = "done"
    /\ UNCHANGED <<clock, ticks, svc, svcChanges, req, transport_type, data,
                   current_hour, multiplier, current_footfall, congestion,
                   todo, components, congestion_scores, fetchLog>>

(***************************************************************************)
(* The prediction service handling one request.                            *)
(***************************************************************************)
Next ==
    \/ Tick
    \/ LocResolve
    \/ LocFetch
    \/ LocCompute
    \/ LocRespond
    \/ AreaStart
    \/ AreaMember
    \/ AreaFinish
    \/ TransStart
    \/ TransMember
    \/ TransFinish

Spec == Init /\ [][Next]_vars

(***************************************************************************)
(* Properties of the prediction service.                                   *)
(***************************************************************************)
Done == pc = "done"
Ok == resp.status = 200

\* the calls of the request that returned data, in call order
OkLog == SelectSeq(fetchLog, LAMBDA e : e.ok)

\* Low < Medium < High
Rank(level) ==
    CASE level = "Low" -> 1
      [] level = "Medium" -> 2
      [] level = "High" -> 3

\* whether the handler has computed levels with `multiplier`
Estimating ==
    \/ req.kind = "location" /\ pc \in {"respond", "done"} /\ congestion # None
    \/ req.kind \in {"area", "transport"} /\ pc \in {"loop", "done"}

\* the estimates the request has made so far: [footfall, type, level]
Estimates ==
    IF req.kind = "location"
    THEN IF Estimating
         THEN {[footfall |-> current_footfall, type |-> transport_type,
                level |-> congestion]}
         ELSE {}
    ELSE {[footfall |-> components[i].footfall,
           type |-> IF req.kind = "area" THEN components[i].type ELSE req.name,
           level |-> components[i].congestion] : i \in 1..Len(components)}

\* the level of section 4.4: High, else Medium, else Low, first match wins;
\* transport multipliers metro 1.0, railway 1.3, bus 0.8, signal 1.2
FirstMatchLevel(hm10, footfall, ttype) ==
    LET f10 == CASE ttype = "metro" -> 10
                 [] ttype = "railway" -> 13
                 [] ttype = "bus" -> 8
                 [] ttype = "signal" -> 12
    IN  CASE hm10 > 12 /\ footfall * f10 > 50000 -> "High"
          [] ~(hm10 > 12 /\ footfall * f10 > 50000)
             /\ hm10 > 9 /\ footfall * f10 > 30000 -> "Medium"
          [] OTHER -> "Low"

\* estimate(baseDailyFootfall, transportType, hour) of the single-location
\* pipeline: the level
EstimateLevel(base10, ttype, hour) ==
    LET r == calculate_current_footfall(base10, hour)
    IN  calculate_congestion_level(r[1], ttype, r[2])

\* C2: every congestion level a handler computes, for a transport type of
\* metro, railway, bus, signal, is the first match of High (hour multiplier
\* > 1.2 and adjusted footfall > 5000), Medium (> 0.9 and > 3000), Low, the
\* adjusted footfall being footfall times 1.0, 1.3, 0.8, 1.2; base 6000,
\* railway, hour 9 gives High and base 2000, bus, hour 2 gives Low.
Thm_C2 ==
    /\ \A e \in Estimates :
          e.type \in {"metro", "railway", "bus", "signal"}
          => e.level = FirstMatchLevel(multiplier, e.footfall, e.type)
    /\ Estimating => EstimateLevel(60000, "railway", 9) = "High"
    /\ Estimating => EstimateLevel(20000, "bus", 2) = "Low"

\* a railway collection holding a High and a Medium entry, and a bus
\* collection holding a Low one
Wit_C2 ==
    /\ Done /\ Ok /\ req.kind = "transport" /\ req.name = "railway"
    /\ \E i, j \in 1..Len(components) :
          /\ components[i].congestion = "High"
          /\ components[j].congestion = "Medium"

\* the reported footfalls of the request, each with the mean it was
\* computed from: <<footfall, mean10>>
Reported ==
    IF req.kind = "location"
    THEN IF Estimating THEN {<<current_footfall, data.mean10>>} ELSE {}
    ELSE {<<components[i].footfall, OkLog[i].mean10>> :
             i \in 1..(IF Len(components) < Len(OkLog)
                       THEN Len(components) ELSE Len(OkLog))}

\* C3 as stated: in every pipeline the reported current footfall is
\* round(baseDailyFootfall * HOUR_MULTIPLIERS[hour]), the product rounded to
\* the nearest integer.
Orig_C3 ==
    \A r \in Reported : r[1] = RoundNearest(r[2] * multiplier, 100)

\* C3 amended: in every pipeline the reported current footfall is
\* int(baseDailyFootfall * HOUR_MULTIPLIERS[hour]): the largest integer not
\* above the product (the product is never negative).
Thm_C3 ==
    /\ Len(components) <= Len(OkLog)
    /\ \A r \in Reported :
          /\ 100 * r[1] <= r[2] * multiplier
          /\ r[2] * multiplier < 100 * (r[1] + 1)

\* an area response with a component whose product has a fraction of a
\* half or more, cut off
Wit_C3 ==
    /\ Done /\ Ok /\ req.kind = "area"
    /\ \E r \in Reported : (r[2] * multiplier) % 100 >= 50

\* C4: for the transport type and the base footfall of the request, the
\* level is monotonic in the hour multiplier: an hour with a multiplier at
\* least as high never gets a strictly lower level.
Thm_C4 ==
    req.kind = "location" /\ pc \in {"compute", "respond", "done"} /\ DataOk(data)
    => \A h1, h2 \in 0..23 :
          HourMultiplier(h1) <= HourMultiplier(h2)
          => Rank(EstimateLevel(data.mean10, transport_type, h1))
                <= Rank(EstimateLevel(data.mean10, transport_type, h2))

\* a location answered High at the hour of the clock, whose level at an
\* hour of lower multiplier is Low and at another is Medium
Wit_C4 ==
    /\ Done /\ Ok /\ req.kind = "location" /\ resp.congestion_level = "High"
    /\ \E h1, h2 \in 0..23 :
          /\ HourMultiplier(h1) < HourMultiplier(h2)
          /\ HourMultiplier(h2) < multiplier
          /\ EstimateLevel(data.mean10, transport_type, h1) = "Low"
          /\ EstimateLevel(data.mean10, transport_type, h2) = "Medium"

\* Low = 1, Medium = 2, High = 3
LevelCode(level) ==
    CASE level = "Low" -> 1
      [] level = "Medium" -> 2
      [] level = "High" -> 3

\* the codes of the components of an area response
Codes(comps) ==
    [i \in 1..Len(comps) |-> LevelCode(comps[i].congestion)]

\* C5: an area response has components; its score is the arithmetic mean of
\* their codes (reported to the nearest hundredth, within 1.0..3.0); its
\* level is High when the unrounded mean is >= 2.5, Medium when >= 1.5,
\* else Low; components all at one level give that level and its code, and
\* components {High, Low} give 2.0 and Medium.
Thm_C5 ==
    Done /\ Ok /\ req.kind = "area"
    => LET comps == resp.components
           n == Len(comps)
           total == SumSeq(Codes(comps))
           score == resp.congestion_score100
           level == resp.overall_congestion
       IN  /\ n > 0
           /\ 2 * (n * score - 100 * total) <= n
           /\ 2 * (100 * total - n * score) <= n
           /\ 100 <= score /\ score <= 300
           /\ level = (IF 10 * total >= 25 * n THEN "High"
                       ELSE IF 10 * total >= 15 * n THEN "Medium"
                       ELSE "Low")
           /\ \A l \in {"Low", "Medium", "High"} :
                 (\A i \in 1..n : comps[i].congestion = l)
                 => level = l /\ score = 100 * LevelCode(l)
           /\ (n = 2 /\ {comps[1].congestion, comps[2].congestion}
                          = {"High", "Low"})
              => score = 200 /\ level = "Medium"

\* an area response with the two components High and Low
Wit_C5 ==
    /\ Done /\ Ok /\ req.kind = "area"
    /\ Len(resp.components) = 2
    /\ {resp.components[1].congestion, resp.components[2].congestion}
          = {"High", "Low"}

\* C6: an area request that collected no component ends in the 404
\* "No data available for this area" and in no area response.
Thm_C6 ==
    /\ Done /\ req.kind = "area" /\ req.name \in Range(AreaNames)
       /\ components = <<>>
       => resp = HTTPException(404, "No data available for this area")
    /\ Done /\ req.kind = "area" /\ Ok
       => components # <<>> /\ resp.components # <<>>

\* an area all of whose members were asked for and none of which had data
Wit_C6 ==
    /\ Done /\ req.kind = "area" /\ components = <<>>
    /\ Len(fetchLog) >= 3
    /\ resp.status = 404

\* the names of the four catalog lists
CatalogNames ==
    Range(METRO_STATIONS) \cup Range(RAILWAY_STATIONS)
    \cup Range(BUS_STATIONS) \cup Range(TRAFFIC_SIGNALS)

\* C7: a location request for a name of no catalog list (names compared
\* exactly, case included) ends at once in the 404 "Location not found",
\* with no transport type assumed and no call of the data generator; an
\* area request for a name of no area ends in the 404 "Area not found"
\* with no call.
Thm_C7 ==
    /\ req.kind = "location" /\ req.name \notin CatalogNames /\ pc # "start"
       => /\ Done
          /\ resp = HTTPException(404, "Location not found")
          /\ transport_type = None
          /\ fetchLog = <<>> /\ svc = NoAnswer
    /\ req.kind = "area" /\ req.name \notin Range(AreaNames) /\ pc # "start"
       => /\ Done
          /\ resp = HTTPException(404, "Area not found")
          /\ fetchLog = <<>> /\ svc = NoAnswer

\* the request for "andheri", which differs from a catalog name by case
\* only, answered
Wit_C7 ==
    /\ req.kind = "location" /\ req.name = "andheri" /\ Done
    /\ resp.status = 404

\* the locations of a sequence of entries
Locations(entries) ==
    [i \in 1..Len(entries) |-> entries[i].location]

\* the members of a request in catalog iteration order
CatalogOrder ==
    IF req.kind = "area"
    THEN LET m == AREA_MAPPING[req.name]
         IN  m.metro \o m.railway \o m.bus \o m.signals
    ELSE CASE req.name = "metro" -> METRO_STATIONS
           [] req.name = "railway" -> RAILWAY_STATIONS
           [] req.name = "bus" -> BUS_STATIONS
           [] req.name = "signal" -> TRAFFIC_SIGNALS

\* C8: an area or transport-type request that reaches its end has asked
\* for every member once, in catalog iteration order, whatever failed, and
\* its collection holds one entry for exactly the members whose call
\* returned data, in that order.
Thm_C8 ==
    /\ req.kind \in {"area", "transport"} /\ pc = "loop"
       => /\ Locations(fetchLog) \o Locations(todo) = CatalogOrder
          /\ Locations(components) = Locations(OkLog)
    /\ req.kind \in {"area", "transport"} /\ Done /\ fetchLog # <<>>
       => /\ Locations(fetchLog) = CatalogOrder
          /\ Locations(components) = Locations(OkLog)
          /\ Ok => Locations(IF req.kind = "area" THEN resp.components
                             ELSE resp.locations) = Locations(OkLog)

\* a transport-type collection whose first members failed and whose later
\* members are its entries
Wit_C8 ==
    /\ req.kind = "transport" /\ Done /\ Ok
    /\ Len(resp.locations) >= 2
    /\ \E i, j \in 1..Len(fetchLog) :
          i < j /\ ~fetchLog[i].ok /\ fetchLog[j].ok

\* C9 as stated: every call the area pipeline makes for a member passes
\* the member's catalog transport type, one of metro, railway, bus, signal,
\* and the member's component is what the single-location pipeline computes
\* from the same statistics and hour.
Claim_C9 ==
    req.kind = "area"
    => /\ \A i \in 1..Len(fetchLog) :
             /\ fetchLog[i].type = get_transport_type(fetchLog[i].location)
             /\ fetchLog[i].type \in {"metro", "railway", "bus", "signal"}
       /\ \A i \in 1..Len(components) :
             /\ i <= Len(OkLog)
             /\ components[i].type = get_transport_type(components[i].location)
             /\ components[i].footfall =
                   calculate_current_footfall(OkLog[i].mean10, current_hour)[1]
             /\ components[i].congestion =
                   EstimateLevel(OkLog[i].mean10,
                                 get_transport_type(components[i].location),
                                 current_hour)

\* C10 as stated: a location request for a catalog name whose call of the
\* data generator failed ends in a failure that is the collaborator being
\* unavailable, not the not-found failure (404) an unknown name gets.
Claim_C10 ==
    /\ req.kind = "location" /\ Done
    /\ req.name \in CatalogNames
    /\ fetchLog # <<>> /\ ~fetchLog[1].ok
    => resp.status \notin {200, 404}

(***************************************************************************)
(* The data generator service: generate_transport_data                     *)
(* (src/data/main.py:121-156).                                             *)
(*                                                                         *)
(* Dates are day numbers counted from 2024-01-01, a Monday, so weekday()   *)
(* is the day number modulo 7; strftime('%Y-%m-%d') is the conversion to   *)
(* <<year, month, day>>, whose order is the order of the zero-padded       *)
(* strings.  Location multipliers are held in twentieths (0.85 is 17), the *)
(* event boost in tenths, sin(2 pi weekday / 7) in ten-thousandths.        *)
(***************************************************************************)
BASE_FOOTFALL ==
    [t \in TransportType |->
       CASE t = "metro" -> 5000
         [] t = "railway" -> 8000
         [] t = "bus" -> 3000
         [] OTHER -> 4000]

\* LOCATION_MULTIPLIERS, in twentieths
LOCATION_MULTIPLIERS ==
    <<<<"Ghatkopar", 24>>,
      <<"Andheri", 30>>,
      <<"Versova", 18>>,
      <<"Aarey", 14>>,
      <<"Dahisar East", 16>>,
      <<"DN Nagar", 20>>,
      <<"Azad Nagar", 17>>,
      <<"Western Express Highway", 22>>,
      <<"Marol Naka", 26>>,
      <<"Airport Road", 28>>,
      <<"Andheri West", 32>>,
      <<"Bandra", 34>>,
      <<"Dadar", 36>>,
      <<"Borivali", 30>>,
      <<"Malad", 26>>,
      <<"Goregaon", 24>>,
      <<"Jogeshwari", 22>>,
      <<"Vile Parle", 26>>,
      <<"Santa Cruz", 24>>,
      <<"Khar Road", 28>>,
      <<"Andheri Bus Depot", 24>>,
      <<"Kurla Bus Station", 26>>,
      <<"Borivali Bus Depot", 22>>,
      <<"Ghatkopar Bus Stand", 20>>,
      <<"Bandra Bus Stand", 24>>,
      <<"Dadar Bus Terminal", 28>>,
      <<"Malad Bus Depot", 20>>,
      <<"Goregaon Bus Depot", 18>>,
      <<"Versova Bus Stand", 16>>,
      <<"DN Nagar Bus Stop", 18>>,
      <<"Amboli Naka", 26>>,
      <<"Andheri Station Signal", 30>>,
      <<"Western Express Highway Junction", 32>>,
      <<"Versova Junction", 20>>,
      <<"DN Nagar Signal", 18>>,
      <<"Azad Nagar Junction", 17>>,
      <<"Ghatkopar Junction", 24>>,
      <<"Airport Road Signal", 28>>,
      <<"Marol Naka Signal", 26>>,
      <<"Aarey Signal", 14>>>>

\* LOCATION_MULTIPLIERS.get(location_name, 1.0), in twentieths
LocationMultiplier(location_name) ==
    IF \E i \in 1..Len(LOCATION_MULTIPLIERS) :
          LOCATION_MULTIPLIERS[i][1] = location_name
    THEN LOCATION_MULTIPLIERS[CHOOSE i \in 1..Len(LOCATION_MULTIPLIERS) :
                                 LOCATION_MULTIPLIERS[i][1] = location_name][2]
    ELSE 20

IsLeap(y) ==
    (y % 4 = 0 /\ y % 100 # 0) \/ y % 400 = 0

DaysInMonth(y, m) ==
    IF m = 2 THEN (IF IsLeap(y) THEN 29 ELSE 28)
    ELSE IF m \in {4, 6, 9, 11} THEN 30
    ELSE 31

\* the date n days after the first of month m of year y
RECURSIVE DateFrom(_, _, _)
DateFrom(n, y, m) ==
    IF n < DaysInMonth(y, m) THEN <<y, m, n + 1>>
    ELSE IF m = 12 THEN DateFrom(n - DaysInMonth(y, m), y + 1, 1)
    ELSE DateFrom(n - DaysInMonth(y, m), y, m + 1)

\* current_date.strftime('%Y-%m-%d')
Strftime(date) ==
    DateFrom(date, 2024, 1)

\* current_date.weekday(): Monday is 0
Weekday(date) ==
    date % 7

\* np.sin(2 * np.pi * weekday / 7), in ten-thousandths
Sin7 ==
    <<0, 7818, 9749, 4339, -4339, -9749, -7818>>

\* lines 131-148 without line 149: no floor under the footfall
Footfall_NoFloor(base, m20, date, day, days, noise, boost10) ==
    LET bk == base \div 1000
        dayf == IF Weekday(date) < 5 THEN 13 ELSE 7
        scaled == bk * m20 * dayf * (5 * days + day) * boost10
        week == Sin7[Weekday(date) + 1] * bk
    IN  IntTrunc(10 * scaled + week * days + 100 * days * noise, 100 * days)

\* lines 131-149, the footfall of one day.  With base = 1000 * bk:
\*   base_footfall = base * (m20/20) * (dayf/10) * (1 + (day/days) * 0.2)
\*                        * (boost10/10)
\*                 = bk * m20 * dayf * (5 * days + day) * boost10 / (10 * days)
\*   week_pattern  = (Sin7/10000) * (base * 0.1) = Sin7 * bk / 100
\*   footfall = max(int(base * 0.2), int(base_footfall + week_pattern + noise))
Footfall(base, m20, date, day, days, noise, boost10) ==
    LET bk == base \div 1000
        dayf == IF Weekday(date) < 5 THEN 13 ELSE 7
        scaled == bk * m20 * dayf * (5 * days + day) * boost10
        week == Sin7[Weekday(date) + 1] * bk
        footfall ==
            IntTrunc(10 * scaled + week * days + 100 * days * noise, 100 * days)
        floor == IntTrunc(base * 2, 10)
    IN  IF floor > footfall THEN floor ELSE footfall

\* outcomes of np.random.normal(0, base * 0.05): the distribution has no
\* bounds; far below, at, and above its mean
Noises == {-3000, 0, 251}

\* outcomes of the event draw: no event (factor 1.0), or an event_boost
\* from uniform(1.2, 1.5), in tenths
Boosts == {10, 12, 15}

\* datetime.now() of the runs: 2024-03-02, 2025-01-02, 2026-11-01, so that
\* the series cross the end of a leap February, of a year, of a month
Nows == {61, 367, 1035}

\* location names asked for: multipliers 1.5, 0.7, 0.85, and a name of no
\* table entry
GenLocations == {"Andheri", "Aarey", "Azad Nagar", "Nowhere"}

GenRequests ==
    [location_name : GenLocations, transport_type : TransportType,
     days : 1..MaxDays]

\* no request in the prediction service
PredIdle ==
    /\ clock = 0
    /\ ticks = 0
    /\ svc = NoAnswer
    /\ svcChanges = 0
    /\ req = [kind |-> "none", name |-> ""]
    /\ pc = "idle"
    /\ transport_type = None
    /\ data = NoneData
    /\ current_hour = -1
    /\ multiplier = 0
    /\ current_footfall = 0
    /\ congestion = None
    /\ todo = <<>>
    /\ components = <<>>
    /\ congestion_scores = <<>>
    /\ fetchLog = <<>>
    /\ resp = NoResp

\* lines 123-127: a call of generate_transport_data about to enter its loop
InitGen ==
    /\ PredIdle
    /\ AllIdle
    /\ FilesIdle
    /\ gReq \in GenRequests
    /\ gNow \in Nows
    /\ gDay = 0
    /\ gData = <<>>
    /\ gPc = "loop"
    /\ gStats = NoStats

\* start_date = datetime.now() - timedelta(days=days)
StartDate == gNow - gReq.days

\* lines 129-154: one pass of the loop, with the outcomes of its draws
GenDay ==
    /\ gPc = "loop" /\ gDay < gReq.days
    /\ \E noise \in Noises, boost10 \in Boosts :
          LET current_date == StartDate + gDay
              footfall == Footfall(BASE_FOOTFALL[gReq.transport_type],
                                   LocationMultiplier(gReq.location_name),
                                   current_date, gDay, gReq.days,
                                   noise, boost10)
          IN  gData' = Append(gData, [ds |-> Strftime(current_date),
                                      y |-> footfall])
    /\ gDay' = gDay + 1
    /\ UNCHANGED <<gReq, gNow, gPc, gStats>>
    /\ UNCHANGED notGenVars

\* line 156: the loop is over, the frame is returned
GenReturn ==
    /\ gPc = "loop" /\ gDay = gReq.days
    /\ gPc' = "done"
    /\ UNCHANGED <<gReq, gNow, gDay, gData, gStats>>
    /\ UNCHANGED notGenVars

\* the column df['y']
Column(frame) ==
    [i \in 1..Len(frame) |-> frame[i].y]

\* the k-th smallest value of a column
Sorted(ys, k) ==
    CHOOSE v \in {ys[i] : i \in 1..Len(ys)} :
        /\ Cardinality({i \in 1..Len(ys) : ys[i] < v}) < k
        /\ Cardinality({i \in 1..Len(ys) : ys[i] <= v}) >= k

\* Series.mean(): the sum over the count
Mean(ys) ==
    [num |-> SumSeq(ys), den |-> Len(ys)]

\* Series.median(): the middle value, or the mean of the two middle values;
\* held doubled
Median2(ys) ==
    LET n == Len(ys)
    IN  IF n % 2 = 1 THEN 2 * Sorted(ys, (n + 1) \div 2)
        ELSE Sorted(ys, n \div 2) + Sorted(ys, n \div 2 + 1)

\* the square of d as <<millions, rest>>, d = 1000 * a + b
Square(d) ==
    LET m == IF d < 0 THEN 0 - d ELSE d
        a == m \div 1000
        b == m % 1000
        low == 2000 * a * b + b * b
    IN  <<a * a + low \div 1000000, low % 1000000>>

\* the sum of the squares of the differences of all pairs of a column, as
\* <<millions, rest>>; it is n * sum((y - mean)^2)
PairSquares(ys) ==
    LET pairs == {<<i, j>> \in (1..Len(ys)) \X (1..Len(ys)) : i < j}
        sq == [pr \in pairs |-> Square(ys[pr[1]] - ys[pr[2]])]
        F[P \in SUBSET pairs] ==
            IF P = {} THEN <<0, 0>>
            ELSE LET pr == CHOOSE x \in P : TRUE
                     rest == F[P \ {pr}]
                     low == rest[2] + sq[pr][2]
                 IN  <<rest[1] + sq[pr][1] + low \div 1000000,
                       low % 1000000>>
    IN  F[pairs]

\* Series.std(): the sample standard deviation, ddof = 1, the square root
\* of sum((y - mean)^2) / (n - 1).  A column of one value has n - 1 = 0 and
\* its std is NaN.  Otherwise the variance is held exactly, as
\* PairSquares / (n * (n - 1)).
Std(ys) ==
    LET n == Len(ys)
    IN  IF n - 1 <= 0
        THEN [nan |-> TRUE, num |-> <<0, 0>>, den |-> 0]
        ELSE [nan |-> FALSE, num |-> PairSquares(ys), den |-> n * (n - 1)]

\* min and max of a column
Min(ys) == Sorted(ys, 1)
Max(ys) == Sorted(ys, Len(ys))

\* lines 234-250 of generate_data: the statistics of the frame, and the
\* response that carries them
GenStats ==
    /\ gPc = "done"
    /\ gStats' = [mean |-> Mean(Column(gData)),
                  median2 |-> Median2(Column(gData)),
                  min |-> Min(Column(gData)),
                  max |-> Max(Column(gData)),
                  std |-> Std(Column(gData))]
    /\ gPc' = "responded"
    /\ UNCHANGED <<gReq, gNow, gDay, gData>>
    /\ UNCHANGED notGenVars

NextGen ==
    \/ GenDay
    \/ GenReturn
    \/ GenStats

SpecGen == InitGen /\ [][NextGen]_vars

(***************************************************************************)
(* Properties of the data generator.                                       *)
(***************************************************************************)
\* date b is the day after date a, both <<year, month, day>>
DayAfter(a, b) ==
    \/ b[1] = a[1] /\ b[2] = a[2] /\ b[3] = a[3] + 1
    \/ /\ a[3] = DaysInMonth(a[1], a[2]) /\ b[3] = 1
       /\ \/ a[2] < 12 /\ b[1] = a[1] /\ b[2] = a[2] + 1
          \/ a[2] = 12 /\ b[1] = a[1] + 1 /\ b[2] = 1

\* date a is before date b
DateBefore(a, b) ==
    \/ a[1] < b[1]
    \/ a[1] = b[1] /\ a[2] < b[2]
    \/ a[1] = b[1] /\ a[2] = b[2] /\ a[3] < b[3]

\* C1: the returned series has exactly `days` entries, its dates strictly
\* increasing, one per day without a gap, and every value at least
\* round(BASE_FOOTFALL[transport_type] * 0.2), hence not negative, whatever
\* the noise and event draws were.
Thm_C1 ==
    gPc = "done"
    => /\ Len(gData) = gReq.days
       /\ \A i \in 1..Len(gData) :
             /\ gData[i].y >= RoundNearest(BASE_FOOTFALL[gReq.transport_type] * 2, 10)
             /\ gData[i].y >= 0
       /\ \A i, j \in 1..Len(gData) :
             i < j => DateBefore(gData[i].ds, gData[j].ds)
       /\ \A i \in 1..(Len(gData) - 1) :
             DayAfter(gData[i].ds, gData[i + 1].ds)

\* a returned series of several days that crosses the end of a month, with
\* a value on the floor and a value above it
Wit_C1 ==
    /\ gPc = "done" /\ gReq.days >= 2 /\ Len(gData) = gReq.days
    /\ \E i \in 1..(Len(gData) - 1) : gData[i + 1].ds[3] = 1
    /\ \E i, j \in 1..Len(gData) :
          /\ gData[i].y = BASE_FOOTFALL[gReq.transport_type] \div 5
          /\ gData[j].y > BASE_FOOTFALL[gReq.transport_type] \div 5

\* every value of the column is v
AllEqual(ys, v) ==
    \A i \in 1..Len(ys) : ys[i] = v

\* C13 as stated: the statistics of a series of `days` identical values v,
\* for every valid day count, are mean = median = min = max = v and
\* std = 0, a number.
Claim_C13 ==
    gPc = "responded"
    => \A v \in {gData[i].y : i \in 1..Len(gData)} :
          AllEqual(Column(gData), v)
          => /\ gStats.mean.num = v * gStats.mean.den
             /\ gStats.median2 = 2 * v
             /\ gStats.min = v
             /\ gStats.max = v
             /\ ~gStats.std.nan
             /\ gStats.std.num = <<0, 0>>

(***************************************************************************)
(* Further properties of the prediction service.                           *)
(***************************************************************************)
\* C12 as stated: a transport-type request for a valid type in which no
\* location returned data ends in a failure, not in a collection.
Claim_C12 ==
    /\ req.kind = "transport" /\ Done
    /\ req.name \in {"metro", "railway", "bus", "signal"}
    /\ components = <<>>
    => resp.status # 200

\* C16 as stated: the current_hour a location, area or transport-type
\* response reports is the hour whose HOUR_MULTIPLIERS entry the footfall
\* and the level of the response were computed with, wherever the clock
\* advanced during the request.
Claim_C16 ==
    Done /\ Ok /\ req.kind \in {"location", "area", "transport"}
    => /\ resp.current_hour = current_hour
       /\ multiplier = HourMultiplier(resp.current_hour)

(***************************************************************************)
(* GET /api/areas/all: get_all_areas_congestion (src/main.py:334-351).     *)
(* Its calls of get_area_prediction run the area handler above, the call's *)
(* argument held in req.                                                   *)
(***************************************************************************)
\* the response of lines 347-351 with len(AREA_MAPPING) as the count
AllResult_CountAll(results) ==
    [status |-> 200, areas |-> results, total_areas |-> Len(AreaNames)]

\* the response of lines 347-351
AllResult(results) ==
    [status |-> 200, areas |-> results, total_areas |-> Len(results)]

\* the hours at which a request for all areas arrives: a peak hour, an
\* off-peak hour and the last hour of the day
AllHours == {8, 13, 23}

\* a request for all areas, at the top of its loop
InitAll ==
    /\ clock \in AllHours
    /\ ticks = 0
    /\ svc = NoAnswer
    /\ svcChanges = 0
    /\ req = [kind |-> "none", name |-> ""]
    /\ pc = "idle"
    /\ transport_type = None
    /\ data = NoneData
    /\ current_hour = -1
    /\ multiplier = 0
    /\ current_footfall = 0
    /\ congestion = None
    /\ todo = <<>>
    /\ components = <<>>
    /\ congestion_scores = <<>>
    /\ fetchLog = <<>>
    /\ resp = NoResp
    /\ GenIdle
    /\ FilesIdle
    /\ allPc = "loop"
    /\ allTodo = AreaNames
    /\ allResults = <<>>
    /\ allLog = <<>>
    /\ allResp = NoResp

\* lines 339-341: the next area; get_area_prediction(area_name) is entered
AllCall ==
    /\ allPc = "loop" /\ allTodo # <<>>
    /\ req' = [kind |-> "area", name |-> Head(allTodo)]
    /\ pc' = "start"
    /\ current_hour' = -1
    /\ multiplier' = 0
    /\ todo' = <<>>
    /\ components' = <<>>
    /\ congestion_scores' = <<>>
    /\ fetchLog' = <<>>
    /\ resp' = NoResp
    /\ allPc' = "call"
    /\ UNCHANGED <<clock, ticks, svc, svcChanges, transport_type, data,
                   current_footfall, congestion>>
    /\ UNCHANGED <<allTodo, allResults, allLog, allResp>>
    /\ UNCHANGED <<genVars, fileVars>>

\* lines 341-345: get_area_prediction has returned, and its result is
\* appended, or has raised, and the area is passed over
AllCollect ==
    /\ allPc = "call" /\ pc = "done"
    /\ allResults' = IF resp.status = 200
                     THEN Append(allResults, resp) ELSE allResults
    /\ allLog' = Append(allLog, [area |-> req.name, status |-> resp.status])
    /\ allTodo' = Tail(allTodo)
    /\ allPc' = "loop"
    /\ pc' = "idle"
    /\ UNCHANGED <<clock, ticks, svc, svcChanges, req, transport_type, data,
                   current_hour, multiplier, current_footfall, congestion,
                   todo, components, congestion_scores, fetchLog, resp>>
    /\ UNCHANGED allResp
    /\ UNCHANGED <<genVars, fileVars>>

\* lines 347-351: the loop is over
AllFinish ==
    /\ allPc = "loop" /\ allTodo = <<>>
    /\ allResp' = AllResult(allResults)
    /\ allPc' = "done"
    /\ UNCHANGED <<allTodo, allResults, allLog>>
    /\ UNCHANGED predVars
    /\ UNCHANGED <<genVars, fileVars>>

NextAll ==
    \/ Tick
    \/ AreaStart
    \/ AreaMember
    \/ AreaFinish
    \/ AllCall
    \/ AllCollect
    \/ AllFinish

SpecAll == InitAll /\ [][NextAll]_vars

\* the areas of a sequence of entries
Areas(entries) ==
    [i \in 1..Len(entries) |-> entries[i].area]

\* C11: a request for all areas runs the area pipeline once for every area
\* of the catalog, in catalog order; an area whose pipeline raised (the 404
\* of an area without data included) is passed over and the request still
\* succeeds; the result holds exactly the areas that succeeded, in catalog
\* order, and total_areas is the number of areas returned.
Thm_C11 ==
    /\ allPc \in {"loop", "done"}
       => /\ Areas(allLog) \o allTodo = AreaNames
          /\ Areas(allResults)
                = Areas(SelectSeq(allLog, LAMBDA e : e.status = 200))
    /\ allPc = "done"
       => /\ Areas(allLog) = AreaNames
          /\ allResp.status = 200
          /\ Areas(allResp.areas)
                = Areas(SelectSeq(allLog, LAMBDA e : e.status = 200))
          /\ allResp.total_areas = Len(allResp.areas)
          /\ \A i \in 1..Len(allResp.areas) :
                /\ allResp.areas[i].status = 200
                /\ allResp.areas[i].components # <<>>

\* all areas asked for, some returned and some passed over for want of data
Wit_C11 ==
    /\ allPc = "done"
    /\ Len(allResp.areas) >= 2 /\ Len(allResp.areas) < Len(AreaNames)
    /\ \E i, j \in 1..Len(allLog) :
          i < j /\ allLog[i].status = 404 /\ allLog[j].status = 200

(***************************************************************************)
(* The data generator service's endpoints (src/data/main.py:222-388) with  *)
(* their validation, their files and their background tasks.  Here a call  *)
(* of generate_transport_data is one step and its frame is known by who    *)
(* asked for it and by its length; the frame itself is what SpecGen        *)
(* follows.  The service runs one event loop (line 402): a handler without *)
(* an await runs from its start to its return; the sending of a            *)
(* FileResponse and a background task are steps of their own.              *)
(***************************************************************************)
\* the characters of the strings that file names are made of
Chars(str) ==
    CASE str = "Ghatkopar" -> 
           <<"G", "h", "a", "t", "k", "o", "p", "a", "r">>
      [] str = "Andheri" -> 
           <<"A", "n", "d", "h", "e", "r", "i">>
      [] str = "Versova" -> 
           <<"V", "e", "r", "s", "o", "v", "a">>
      [] str = "Aarey" -> 
           <<"A", "a", "r", "e", "y">>
      [] str = "Dahisar East" -> 
           <<"D", "a", "h", "i", "s", "a", "r", " ", "E", "a", "s", "t">>
      [] str = "DN Nagar" -> 
           <<"D", "N", " ", "N", "a", "g", "a", "r">>
      [] str = "Azad Nagar" -> 
           <<"A", "z", "a", "d", " ", "N", "a", "g", "a", "r">>
      [] str = "Western Express Highway" -> 
           <<"W", "e", "s", "t", "e", "r", "n", " ", "E", "x", "p", "r", "e", "s", "s", " ", "H", "i", "g", "h", "w", "a", "y">>
      [] str = "Marol Naka" -> 
           <<"M", "a", "r", "o", "l", " ", "N", "a", "k", "a">>
      [] str = "Airport Road" -> 
           <<"A", "i", "r", "p", "o", "r", "t", " ", "R", "o", "a", "d">>
      [] str = "Andheri West" -> 
           <<"A", "n", "d", "h", "e", "r", "i", " ", "W", "e", "s", "t">>
      [] str = "Bandra" -> 
           <<"B", "a", "n", "d", "r", "a">>
      [] str = "Dadar" -> 
           <<"D", "a", "d", "a", "r">>
      [] str = "Borivali" -> 
           <<"B", "o", "r", "i", "v", "a", "l", "i">>
      [] str = "Malad" -> 
           <<"M", "a", "l", "a", "d">>
      [] str = "Goregaon" -> 
           <<"G", "o", "r", "e", "g", "a", "o", "n">>
      [] str = "Jogeshwari" -> 
           <<"J", "o", "g", "e", "s", "h", "w", "a", "r", "i">>
      [] str = "Vile Parle" -> 
           <<"V", "i", "l", "e", " ", "P", "a", "r", "l", "e">>
      [] str = "Santa Cruz" -> 
           <<"S", "a", "n", "t", "a", " ", "C", "r", "u", "z">>
      [] str = "Khar Road" -> 
           <<"K", "h", "a", "r", " ", "R", "o", "a", "d">>
      [] str = "Andheri Bus Depot" -> 
           <<"A", "n", "d", "h", "e", "r", "i", " ", "B", "u", "s", " ", "D", "e", "p", "o", "t">>
      [] str = "Kurla Bus Station" -> 
           <<"K", "u", "r", "l", "a", " ", "B", "u", "s", " ", "S", "t", "a", "t", "i", "o", "n">>
      [] str = "Borivali Bus Depot" -> 
           <<"B", "o", "r", "i", "v", "a", "l", "i", " ", "B", "u", "s", " ", "D", "e", "p", "o", "t">>
      [] str = "Ghatkopar Bus Stand" -> 
           <<"G", "h", "a", "t", "k", "o", "p", "a", "r", " ", "B", "u", "s", " ", "S", "t", "a", "n", "d">>
      [] str = "Bandra Bus Stand" -> 
           <<"B", "a", "n", "d", "r", "a", " ", "B", "u", "s", " ", "S", "t", "a", "n", "d">>
      [] str = "Dadar Bus Terminal" -> 
           <<"D", "a", "d", "a", "r", " ", "B", "u", "s", " ", "T", "e", "r", "m", "i", "n", "a", "l">>
      [] str = "Malad Bus Depot" -> 
           <<"M", "a", "l", "a", "d", " ", "B", "u", "s", " ", "D", "e", "p", "o", "t">>
      [] str = "Goregaon Bus Depot" -> 
           <<"G", "o", "r", "e", "g", "a", "o", "n", " ", "B", "u", "s", " ", "D", "e", "p", "o", "t">>
      [] str = "Versova Bus Stand" -> 
           <<"V", "e", "r", "s", "o", "v", "a", " ", "B", "u", "s", " ", "S", "t", "a", "n", "d">>
      [] str = "DN Nagar Bus Stop" -> 
           <<"D", "N", " ", "N", "a", "g", "a", "r", " ", "B", "u", "s", " ", "S", "t", "o", "p">>
      [] str = "Amboli Naka" -> 
           <<"A", "m", "b", "o", "l", "i", " ", "N", "a", "k", "a">>
      [] str = "Andheri Station Signal" -> 
           <<"A", "n", "d", "h", "e", "r", "i", " ", "S", "t", "a", "t", "i", "o", "n", " ", "S", "i", "g", "n", "a", "l">>
      [] str = "Western Express Highway Junction" -> 
           <<"W", "e", "s", "t", "e", "r", "n", " ", "E", "x", "p", "r", "e", "s", "s", " ", "H", "i", "g", "h", "w", "a", "y", " ", "J", "u", "n", "c", "t", "i", "o", "n">>
      [] str = "Versova Junction" -> 
           <<"V", "e", "r", "s", "o", "v", "a", " ", "J", "u", "n", "c", "t", "i", "o", "n">>
      [] str = "DN Nagar Signal" -> 
           <<"D", "N", " ", "N", "a", "g", "a", "r", " ", "S", "i", "g", "n", "a", "l">>
      [] str = "Azad Nagar Junction" -> 
           <<"A", "z", "a", "d", " ", "N", "a", "g", "a", "r", " ", "J", "u", "n", "c", "t", "i", "o", "n">>
      [] str = "Ghatkopar Junction" -> 
           <<"G", "h", "a", "t", "k", "o", "p", "a", "r", " ", "J", "u", "n", "c", "t", "i", "o", "n">>
      [] str = "Airport Road Signal" -> 
           <<"A", "i", "r", "p", "o", "r", "t", " ", "R", "o", "a", "d", " ", "S", "i", "g", "n", "a", "l">>
      [] str = "Marol Naka Signal" -> 
           <<"M", "a", "r", "o", "l", " ", "N", "a", "k", "a", " ", "S", "i", "g", "n", "a", "l">>
      [] str = "Aarey Signal" -> 
           <<"A", "a", "r", "e", "y", " ", "S", "i", "g", "n", "a", "l">>
      [] str = "dn_nagar" -> 
           <<"d", "n", "_", "n", "a", "g", "a", "r">>
      [] str = "metro" -> 
           <<"m", "e", "t", "r", "o">>
      [] str = "railway" -> 
           <<"r", "a", "i", "l", "w", "a", "y">>
      [] str = "bus" -> 
           <<"b", "u", "s">>
      [] str = "signal" -> 
           <<"s", "i", "g", "n", "a", "l">>
      [] str = "tram" -> 
           <<"t", "r", "a", "m">>
      [] str = "data_" -> 
           <<"d", "a", "t", "a", "_">>
      [] str = ".csv" -> 
           <<".", "c", "s", "v">>

UpperCase ==
    <<"A", "B", "C", "D", "E", "F", "G", "H", "I", "J", "K", "L", "M",
      "N", "O", "P", "Q", "R", "S", "T", "U", "V", "W", "X", "Y", "Z">>

LowerCase ==
    <<"a", "b", "c", "d", "e", "f", "g", "h", "i", "j", "k", "l", "m",
      "n", "o", "p", "q", "r", "s", "t", "u", "v", "w", "x", "y", "z">>

\* str.replace(' ', '_'), character by character
Replace(cs) ==
    [i \in 1..Len(cs) |-> IF cs[i] = " " THEN "_" ELSE cs[i]]

\* str.lower(), character by character
Lower(cs) ==
    [i \in 1..Len(cs) |->
       IF \E k \in 1..Len(UpperCase) : UpperCase[k] = cs[i]
       THEN LowerCase[CHOOSE k \in 1..Len(UpperCase) : UpperCase[k] = cs[i]]
       ELSE cs[i]]

\* f"data_{transport_type}_{location.replace(' ', '_').lower()}.csv"
Filename(ttype, location) ==
    Chars("data_") \o Chars(ttype) \o <<"_">>
        \o Lower(Replace(Chars(location))) \o Chars(".csv")

\* the bodies that arrive.  location_name is any string: two catalog names
\* and a name that is none; transport_type: two of the enumeration and a
\* string that is not; days: around both ends of ge=1, le=365
RawLocations == {"Andheri", "DN Nagar", "dn_nagar"}
RawTypes == {"metro", "bus", "tram"}
RawDays == {0, 1, 365, 366}

\* the include_* flags of a bulk request: all lists (the default), the metro
\* list alone, the bus and signal lists
RawIncludes ==
    {[metro |-> TRUE, railway |-> TRUE, bus |-> TRUE, signal |-> TRUE],
     [metro |-> TRUE, railway |-> FALSE, bus |-> FALSE, signal |-> FALSE],
     [metro |-> FALSE, railway |-> FALSE, bus |-> TRUE, signal |-> TRUE]}

RawRequests ==
    [endpoint : {"data", "csv"}, location_name : RawLocations,
     transport_type : RawTypes, days : RawDays]
    \cup [endpoint : {"all", "zip"}, days : RawDays, include : RawIncludes]

DataGenerationRequest_NoFloor(r) ==
    /\ r.transport_type \in TransportType
    /\ r.days <= 365

\* lines 95-105: transport_type is of the enumeration, days has ge=1, le=365
DataGenerationRequest(r) ==
    /\ r.transport_type \in TransportType
    /\ r.days >= 1 /\ r.days <= 365

\* lines 107-112: days has ge=1, le=365
BulkGenerationRequest(r) ==
    r.days >= 1 /\ r.days <= 365

\* two requests have arrived
InitFiles ==
    /\ PredIdle
    /\ GenIdle
    /\ AllIdle
    /\ rReq \in [Procs -> RawRequests]
    /\ rPc = [p \in Procs |-> "validate"]
    /\ rCalls = [p \in Procs |-> <<>>]
    /\ rResp = [p \in Procs |-> NoResp]
    /\ files = <<>>

\* the body is parsed into the handler's model before the handler is
\* entered; a body that does not fit is answered 422
Validate(p) ==
    /\ rPc[p] = "validate"
    /\ LET ok == IF rReq[p].endpoint \in {"data", "csv"}
                 THEN DataGenerationRequest(rReq[p])
                 ELSE BulkGenerationRequest(rReq[p])
       IN  IF ok
           THEN /\ rPc' = [rPc EXCEPT ![p] = "handler"]
                /\ UNCHANGED rResp
           ELSE /\ rPc' = [rPc EXCEPT ![p] = "rejected"]
                /\ rResp' = [rResp EXCEPT ![p] = [status |-> 422]]
    /\ UNCHANGED <<rReq, rCalls, files>>
    /\ UNCHANGED notFileVars

\* a call generate_transport_data(location_name, transport_type, days)
Call(location, ttype, days) ==
    [location_name |-> location, transport_type |-> ttype, days |-> days]

\* the frame request p got from a call for `days` days
Frame(p, days) ==
    [by |-> p, records |-> days]

\* df.to_csv(filename): the file is created or overwritten
ToCsv(dir, filename, frame) ==
    [f \in DOMAIN dir \cup {filename} |->
       IF f = filename THEN frame ELSE dir[f]]

\* lines 222-254
generate_data(p) ==
    /\ rPc[p] = "handler" /\ rReq[p].endpoint = "data"
    /\ rCalls' = [rCalls EXCEPT ![p] =
                    <<Call(rReq[p].location_name, rReq[p].transport_type,
                           rReq[p].days)>>]
    /\ rResp' = [rResp EXCEPT ![p] =
                    [status |-> 200, records |-> rReq[p].days]]
    /\ rPc' = [rPc EXCEPT ![p] = "done"]
    /\ UNCHANGED <<rReq, files>>
    /\ UNCHANGED notFileVars

\* lines 256-282: the frame is written, the cleanup is added to the
\* background tasks and the FileResponse is returned, not yet sent
generate_csv(p) ==
    /\ rPc[p] = "handler" /\ rReq[p].endpoint = "csv"
    /\ rCalls' = [rCalls EXCEPT ![p] =
                    <<Call(rReq[p].location_name, rReq[p].transport_type,
                           rReq[p].days)>>]
    /\ files' = ToCsv(files,
                      Filename(rReq[p].transport_type, rReq[p].location_name),
                      Frame(p, rReq[p].days))
    /\ rPc' = [rPc EXCEPT ![p] = "send"]
    /\ UNCHANGED <<rReq, rResp>>
    /\ UNCHANGED notFileVars

\* lines 278-282, the FileResponse being sent: the file at `path` is read as
\* it is now; a path without a file is an error and the background tasks
\* are not run
FileResponse(p) ==
    /\ rPc[p] = "send"
    /\ LET path == Filename(rReq[p].transport_type, rReq[p].location_name)
       IN  IF path \in DOMAIN files
           THEN /\ rResp' = [rResp EXCEPT ![p] =
                               [status |-> 200, body |-> files[path]]]
                /\ rPc' = [rPc EXCEPT ![p] = "background"]
           ELSE /\ rResp' = [rResp EXCEPT ![p] = [status |-> 500]]
                /\ rPc' = [rPc EXCEPT ![p] = "done"]
    /\ UNCHANGED <<rReq, rCalls, files>>
    /\ UNCHANGED notFileVars

\* lines 158-166, run as the background task of line 276 after the response
\* is sent: the file, if there is one, is removed
cleanup_files(p) ==
    /\ rPc[p] = "background"
    /\ LET filename == Filename(rReq[p].transport_type,
                                rReq[p].location_name)
       IN  files' = [f \in DOMAIN files \ {filename} |-> files[f]]
    /\ rPc' = [rPc EXCEPT ![p] = "done"]
    /\ UNCHANGED <<rReq, rCalls, rResp>>
    /\ UNCHANGED notFileVars

\* the stations a bulk request goes through, each with its type, in the
\* order of lines 295-324 and 350-376
Stations(include) ==
    (IF include.metro
     THEN [i \in 1..Len(METRO_STATIONS) |-> <<METRO_STATIONS[i], "metro">>]
     ELSE <<>>)
    \o (IF include.railway
        THEN [i \in 1..Len(RAILWAY_STATIONS) |->
                <<RAILWAY_STATIONS[i], "railway">>]
        ELSE <<>>)
    \o (IF include.bus
        THEN [i \in 1..Len(BUS_STATIONS) |-> <<BUS_STATIONS[i], "bus">>]
        ELSE <<>>)
    \o (IF include.signal
        THEN [i \in 1..Len(TRAFFIC_SIGNALS) |->
                <<TRAFFIC_SIGNALS[i], "signal">>]
        ELSE <<>>)

\* the file name of every station of every list
CatalogFilenames ==
    [st \in UNION {{<<type_map(t)[i], t>> : i \in 1..Len(type_map(t))} :
                     t \in TransportType} |-> Filename(st[2], st[1])]

\* the calls of a bulk request
BulkCalls(include, days) ==
    [i \in 1..Len(Stations(include)) |->
       Call(Stations(include)[i][1], Stations(include)[i][2], days)]

\* the file names of a bulk request, in order
BulkFilenames(include) ==
    [i \in 1..Len(Stations(include)) |-> CatalogFilenames[Stations(include)[i]]]

\* lines 288-339: every station's frame is written; nothing is cleaned up
generate_all_data(p) ==
    /\ rPc[p] = "handler" /\ rReq[p].endpoint = "all"
    /\ rCalls' = [rCalls EXCEPT ![p] =
                    BulkCalls(rReq[p].include, rReq[p].days)]
    /\ LET generated_files == BulkFilenames(rReq[p].include)
       IN  /\ files' = [f \in DOMAIN files \cup Range(generated_files) |->
                          IF f \in Range(generated_files)
                          THEN Frame(p, rReq[p].days) ELSE files[f]]
           /\ rResp' = [rResp EXCEPT ![p] =
                           [status |-> 200,
                            total_files |-> Len(generated_files),
                            files |-> generated_files]]
    /\ rPc' = [rPc EXCEPT ![p] = "done"]
    /\ UNCHANGED rReq
    /\ UNCHANGED notFileVars

\* lines 341-388: every station's frame goes into the archive in memory
generate_zip(p) ==
    /\ rPc[p] = "handler" /\ rReq[p].endpoint = "zip"
    /\ rCalls' = [rCalls EXCEPT ![p] =
                    BulkCalls(rReq[p].include, rReq[p].days)]
    /\ rResp' = [rResp EXCEPT ![p] =
                    [status |-> 200,
                     entries |-> BulkFilenames(rReq[p].include)]]
    /\ rPc' = [rPc EXCEPT ![p] = "done"]
    /\ UNCHANGED <<rReq, files>>
    /\ UNCHANGED notFileVars

NextFiles ==
    \/ \E p \in Procs : Validate(p)
    \/ \E p \in Procs : generate_data(p)
    \/ \E p \in Procs : generate_csv(p)
    \/ \E p \in Procs : FileResponse(p)
    \/ \E p \in Procs : cleanup_files(p)
    \/ \E p \in Procs : generate_all_data(p)
    \/ \E p \in Procs : generate_zip(p)

SpecFiles == InitFiles /\ [][NextFiles]_vars

\* every entry point that takes a day count or a transport type: two
\* requests at the data generator service, or a request by transport type
\* at the prediction service
InitEntry ==
    \/ InitFiles
    \/ Init /\ req.kind = "transport"

NextEntry ==
    \/ \E p \in Procs : Validate(p)
    \/ \E p \in Procs : generate_data(p)
    \/ \E p \in Procs : generate_csv(p)
    \/ \E p \in Procs : FileResponse(p)
    \/ \E p \in Procs : cleanup_files(p)
    \/ \E p \in Procs : generate_all_data(p)
    \/ \E p \in Procs : generate_zip(p)
    \/ Tick
    \/ TransStart
    \/ TransMember
    \/ TransFinish

SpecEntry == InitEntry /\ [][NextEntry]_vars

(***************************************************************************)
(* Properties of the entry points.                                         *)
(***************************************************************************)
\* the transport types there are
KnownTypes == {"metro", "railway", "bus", "signal"}

\* a body with a day count outside 1..365, or with a transport type, where
\* the entry point takes one, that is unknown
BadRequest(r) ==
    \/ r.days < 1
    \/ r.days > 365
    \/ r.endpoint \in {"data", "csv"} /\ r.transport_type \notin KnownTypes

OwnFile(p) ==
    Filename(rReq[p].transport_type, rReq[p].location_name)

\* C15 as stated: requests handled at the same time do not interfere.  A
\* csv request finds the file it wrote, holding its own frame, from the
\* moment it is written until it is sent, and is answered with it; and
\* every file a generate_all request has reported as generated is there.
Claim_C15 ==
    \A p \in Procs :
       /\ rReq[p].endpoint = "csv" /\ rPc[p] = "send"
          => /\ OwnFile(p) \in DOMAIN files
             /\ files[OwnFile(p)] = Frame(p, rReq[p].days)
       /\ rReq[p].endpoint = "csv" /\ rPc[p] \in {"background", "done"}
          => /\ rResp[p].status = 200
             /\ rResp[p].body = Frame(p, rReq[p].days)
       /\ rReq[p].endpoint = "all" /\ rPc[p] = "done"
          => \A i \in 1..Len(rResp[p].files) :
                rResp[p].files[i] \in DOMAIN files

====
